---- MODULE Spec2Model ----
(***************************************************************************)
(* Model of the ingest pipeline of superdesk-core,                         *)
(* src/superdesk/io/commands/update_ingest.py: the provider run            *)
(* (update_provider) under the provider lock, the batch pipeline           *)
(* (ingest_items) and the per-item algorithm (ingest_item) with its        *)
(* helpers (filter_expired_items, is_new_version, set_expiry).             *)
(*                                                                         *)
(* Times are seconds on one clock.  Python dictionaries are records with   *)
(* a fixed set of fields; for every field one value stands for "the key    *)
(* is absent" (see KeyPresent) and, where the code tells them apart, one   *)
(* for None.  Strings that the code parses (version) are sequences of      *)
(* character codes, so that parsing is computed, not assumed.              *)
(***************************************************************************)
EXTENDS Integers, Sequences, FiniteSets, TLC

VARIABLES
    clock,      \* utcnow(), in seconds
    db,         \* the ingest collection: sequence of stored records, in insertion order
    nextId,     \* number of internal ids generate_guid has handed out
    routed,     \* ids handed to apply_routing_scheme, in call order
    last,       \* the last ingest_items call: its input, provider and result, the storage
                \* before it, and the input and result of the call before it
    ncalls,     \* number of ingest_items calls made
    lockDoc,    \* the lock service's record for the provider lock
    pc,         \* per run of update_provider: its position
    run,        \* per run: its local variables and what it did so far
    providerDb, \* the provider's record in ingest_providers
    notes       \* notifications emitted, as <<topic, run>>

vars == <<clock, db, nextId, routed, last, ncalls, lockDoc, pc, run, providerDb, notes>>

-----------------------------------------------------------------------------
(* Bounds of the model *)

\* the clock's value in the initial state
ClockStart == 7200
\* seconds the clock advances in one Tick
TickStep == 2000
\* number of Ticks
MaxTicks == 1
\* number of ingest_items calls in a behaviour of SpecIngest
MaxCalls == 2
\* number of batches a feeding service yields in one run
MaxBatches == 2
\* value of app.config["INGEST_EXPIRY_MINUTES"]
INGEST_EXPIRY_MINUTES == 30
\* subjects of an item passed to process_iptc_codes
MaxSubjects == 2
\* providers in the ingest_providers collection when UpdateIngest.run is called
MaxProviders == 2
\* categories of an item passed to process_anpa_category
MaxCategories == 2

-----------------------------------------------------------------------------
(* Program constants *)

UPDATE_TTL == 1800

-----------------------------------------------------------------------------
(* Values *)

\* field values standing for an absent key (numbers, strings) and for None
AbsentInt == -1
NoneInt == 0
AbsentStr == "<absent>"

\* internal ids, as generate_guid hands them out
IdNames == <<"id1", "id2", "id3", "id4", "id5", "id6", "id7", "id8", "id9">>
IdOf(n) == IF n <= Len(IdNames) THEN IdNames[n] ELSE "idN"

\* timedelta(minutes=m), in seconds
Minutes(m) == m * 60

Max(a, b) == IF a >= b THEN a ELSE b

\* character codes of version strings: 0..9 are the digits, 10 is a letter
IsDigits(s) == Len(s) > 0 /\ \A i \in 1..Len(s) : s[i] \in 0..9

\* int(s, 10) of a string of digits
RECURSIVE ParseInt(_)
ParseInt(s) ==
    IF Len(s) = 0 THEN 0
    ELSE 10 * ParseInt(SubSeq(s, 1, Len(s) - 1)) + s[Len(s)]

\* s > t on Python strings: lexicographic on the character codes
RECURSIVE StrGreater(_, _)
StrGreater(s, t) ==
    IF Len(s) = 0 THEN FALSE
    ELSE IF Len(t) = 0 THEN TRUE
    ELSE IF s[1] # t[1] THEN s[1] > t[1]
    ELSE StrGreater(Tail(s), Tail(t))

-----------------------------------------------------------------------------
(* Items.  An item is the dictionary a feeding service delivers and that   *)
(* ingest_item completes; a stored record is such a dictionary as written  *)
(* to the ingest collection.                                               *)
(*   guid            GUID_FIELD                                            *)
(*   type            ITEM_TYPE, AbsentStr when the key is absent           *)
(*   version         string of character codes, <<>> when absent           *)
(*   versioncreated  a time, 0 when absent                                 *)
(*   expiry          a time, AbsentInt when the key is absent, NoneInt     *)
(*                   when the key is there with the value None             *)
(*   body            body_html, AbsentStr when absent ("" is a value)      *)
(*   refs            the refs of the item's groups, <<>> when absent       *)
(*   assoc           the values of item["associations"], <<>> when absent  *)
(*   id, family_id, source, uri, state, ingest_provider, pubstatus         *)
(*                   strings, AbsentStr when absent                        *)

DictFields ==
    {"guid", "type", "version", "versioncreated", "expiry", "body", "refs", "assoc",
     "id", "family_id", "source", "uri", "state", "ingest_provider", "pubstatus"}

\* the fields whose values are strings, of which "" is the falsy one
StringFields ==
    {"guid", "type", "body", "id", "family_id", "source", "uri", "state", "ingest_provider",
     "pubstatus"}

\* field in item
KeyPresent(item, f) ==
    CASE f = "version" -> item.version # <<>>
      [] f = "versioncreated" -> item.versioncreated # 0
      [] f = "expiry" -> item.expiry # AbsentInt
      [] f = "refs" -> item.refs # <<>>
      [] f = "assoc" -> item.assoc # <<>>
      [] OTHER -> item[f] # AbsentStr

\* item[field] is None, for a key that is present
IsNone(item, f) == f = "expiry" /\ item.expiry = NoneInt

\* bool(item.get(field))
Truthy(item, f) ==
    /\ KeyPresent(item, f)
    /\ ~IsNone(item, f)
    /\ f \in StringFields => item[f] # ""

\* a.update(b): the keys of b overwrite those of a
DictUpdate(a, b) == [f \in DOMAIN a |-> IF KeyPresent(b, f) THEN b[f] ELSE a[f]]

\* an item as a feeding service delivers it
FeedItem(guid, type, version, versioncreated, expiry, body, refs, assoc) ==
    [guid |-> guid, type |-> type, version |-> version, versioncreated |-> versioncreated,
     expiry |-> expiry, body |-> body, refs |-> refs, assoc |-> assoc,
     id |-> AbsentStr, family_id |-> AbsentStr, source |-> AbsentStr, uri |-> AbsentStr,
     state |-> AbsentStr, ingest_provider |-> AbsentStr, pubstatus |-> AbsentStr]

\* a reference of a composite item, as delivered
Ref(residRef) == [residRef |-> residRef, guid |-> AbsentStr, location |-> AbsentStr]

(* Storage: ingest_service of the ingest collection *)

\* positions of the stored records matching guid
GuidMatches(store, guid) == {i \in 1..Len(store) : store[i].guid = guid}

\* ingest_service.find_one(guid=guid): position of the first match, 0 for None
FindByGuid(store, guid) ==
    IF GuidMatches(store, guid) = {} THEN 0
    ELSE CHOOSE i \in GuidMatches(store, guid) : \A j \in GuidMatches(store, guid) : i <= j

\* ingest_service.find_one(_id=id)
FindById(store, id) ==
    IF \E i \in 1..Len(store) : store[i].id = id
    THEN CHOOSE i \in 1..Len(store) : store[i].id = id
    ELSE 0


-----------------------------------------------------------------------------
(* Version comparison *)

NEW_VERSION_IGNORE_FIELS == {"expiry"}

\* variant of VersionGreater: the values are compared as they are, never parsed
VersionGreaterUnparsed(a, b) == StrGreater(a, b)

\* the comparison of one explicit version field, lines 734-742: both values parse
\* as integers, or they are compared directly
VersionGreater(a, b) ==
    IF IsDigits(a) /\ IsDigits(b) THEN ParseInt(a) > ParseInt(b) ELSE StrGreater(a, b)

\* the loop over the item's fields, lines 744-749
ContentDiffers(item, old_item) ==
    \E f \in DictFields \ NEW_VERSION_IGNORE_FIELS :
        /\ KeyPresent(item, f)
        /\ ~IsNone(item, f)
        /\ (~Truthy(old_item, f) \/ item[f] # old_item[f])

is_new_version(item, old_item) ==
    IF Truthy(item, "version") /\ Truthy(old_item, "version")
    THEN VersionGreater(item.version, old_item.version)
    ELSE IF Truthy(item, "versioncreated") /\ Truthy(old_item, "versioncreated")
    THEN item.versioncreated > old_item.versioncreated
    ELSE ContentDiffers(item, old_item)

-----------------------------------------------------------------------------
(* Expiry *)

\* superdesk.utc.get_expiry_date(minutes, offset): offset + timedelta(minutes=minutes)
get_expiry_date(minutes, offset) == offset + Minutes(minutes)

\* provider.get("content_expiry") or app.config["INGEST_EXPIRY_MINUTES"]
ExpiryMinutes(provider) ==
    IF provider.content_expiry # NoneInt THEN provider.content_expiry ELSE INGEST_EXPIRY_MINUTES

set_expiry(item, provider, parent_expiry, now) ==
    IF parent_expiry # NoneInt /\ parent_expiry # AbsentInt
    THEN [item EXCEPT !.expiry = parent_expiry]
    ELSE LET expiry_offset == IF item.versioncreated # 0 THEN item.versioncreated ELSE now
         IN  IF item.expiry = AbsentInt
             THEN [item EXCEPT !.expiry = get_expiry_date(ExpiryMinutes(provider), expiry_offset)]
             ELSE item

is_not_expired(item, delta, now) ==
    IF Truthy(item, "expiry") \/ Truthy(item, "versioncreated")
    THEN LET expiry == IF Truthy(item, "expiry") THEN item.expiry
                       ELSE item.versioncreated + delta
         IN  expiry > now
    ELSE TRUE

\* variant of ValidatedProvider: the provider's content_expiry is kept as configured
ProviderAsConfigured(provider) == provider

\* the provider after the validation of its content_expiry, lines 120-131;
\* NoneInt stands for a missing or None content_expiry
ValidatedProvider(provider) ==
    IF provider.content_expiry < 0
    THEN [provider EXCEPT !.content_expiry = NoneInt]
    ELSE provider

\* the duration filter_expired_items filters with, line 133
FilterDelta(provider) == Minutes(ExpiryMinutes(ValidatedProvider(provider)))

\* item.get(ITEM_TYPE, "text")
TypeOrText(item) == IF item.type = AbsentStr THEN "text" ELSE item.type

\* the items filter_expired_items returns; the provider it leaves is ValidatedProvider
filter_expired_items(provider, items, now) ==
    SelectSeq(items, LAMBDA item :
        /\ is_not_expired(item, FilterDelta(provider), now)
        /\ TypeOrText(item) \in provider.content_types)


-----------------------------------------------------------------------------
(* ingest_item.                                                            *)
(* st is the state the call works on: [db, nextId, routed].  env holds     *)
(* what the call's collaborators do: the time, the answer of the           *)
(* collection's should_update, and the place where processing an item      *)
(* with GUID fault_guid raises ("enrich": in the enrichment of lines       *)
(* 614-626, "persist": in post_in_mongo or patch_in_mongo; "none").        *)
(* The result is [ok, ids, st, item, path]: the pair ingest_item returns,  *)
(* the state it leaves, the item dictionary as it leaves it, and the way   *)
(* the call took: "skipped" (the returns of lines 587-596), "raised" (the  *)
(* except clause), "inserted" (no stored record), "updated" (a new version *)
(* of the stored record) or "merged" (not a new version).                  *)

CONTENT_STATE_INGESTED == "ingested"
CONTENT_STATE_KILLED == "killed"
PUB_STATUS_CANCELED == "canceled"

\* superdesk.workflow.set_default_state(item, state)
set_default_state(item, default_state) ==
    IF Truthy(item, "state") THEN item ELSE [item EXCEPT !.state = default_state]

FaultAt(env, item, kind) == env.fault_guid = item.guid /\ env.fault_kind = kind

\* the except clause of lines 713-716
ItemFailed(st, item) ==
    [ok |-> FALSE, ids |-> <<>>, st |-> st, item |-> item, path |-> "raised"]

\* ingest_service.system_update(id, {"expiry": expiry}, ingested)
SystemUpdateExpiry(store, i, expiry) == [store EXCEPT ![i].expiry = expiry]

\* ingest_service.patch_in_mongo(id, updates, old_item)
patch_in_mongo(store, i, updates) == [store EXCEPT ![i] = DictUpdate(@, updates)]

\* ingest_service.post_in_mongo([item])
post_in_mongo(store, item) == Append(store, item)

\* Op applied to the value of e (e is computed once)
Bind(e, Op(_)) == CHOOSE v \in {Op(x) : x \in {e}} : TRUE

RECURSIVE ingest_item(_, _, _, _, _, _)
RECURSIVE IngestAssociations(_, _, _, _)

\* one iteration of the loop over item["associations"], lines 641-687, for the k-th
\* association; acc is [item, st, ids]
IngestAssociation(acc, k, provider, env) ==
    LET assoc == set_default_state(acc.item.assoc[k], CONTENT_STATE_INGESTED)
        ingested == FindByGuid(acc.st.db, assoc.guid)
    IN  IF assoc.guid = AbsentStr
        THEN [acc EXCEPT !.item.assoc[k] = assoc]
        ELSE IF ingested # 0
        THEN [acc EXCEPT
                !.item.assoc[k] = [assoc EXCEPT !.id = acc.st.db[ingested].id],
                !.st.db = SystemUpdateExpiry(@, ingested, acc.item.expiry)]
        ELSE Bind(ingest_item(assoc, provider, env, FALSE, acc.item.expiry, acc.st),
                  LAMBDA sub :
                    IF sub.ok
                    THEN [acc EXCEPT
                            !.item.assoc[k] = [sub.item EXCEPT !.id = sub.ids[1]],
                            !.st = sub.st,
                            !.ids = @ \o sub.ids]
                    ELSE [acc EXCEPT !.item.assoc[k] = sub.item, !.st = sub.st])

\* the loop over item["associations"], lines 640-687, from the k-th association on
IngestAssociations(acc, k, provider, env) ==
    IF k > Len(acc.item.assoc) THEN acc
    ELSE Bind(IngestAssociation(acc, k, provider, env),
              LAMBDA next : IngestAssociations(next, k + 1, provider, env))

\* variant of UpdateStored: an item that is not a new version is written as well
UpdateStoredWritingStale(item, old, old_item, ids, st, env, routing_scheme) ==
    IF FaultAt(env, item, "persist") THEN ItemFailed(st, item)
    ELSE LET merged == DictUpdate(DictUpdate(item, old_item), item)
             st1 == [st EXCEPT !.db = patch_in_mongo(@, old, item)]
         IN  IF is_new_version(item, old_item)
             THEN [ok |-> TRUE,
                   ids |-> Append(ids, merged.id),
                   st |-> IF routing_scheme
                          THEN [st1 EXCEPT !.routed = Append(@, merged.id)]
                          ELSE st1,
                   item |-> merged, path |-> "updated"]
             ELSE [ok |-> TRUE, ids |-> ids, st |-> st1, item |-> DictUpdate(item, old_item),
                   path |-> "merged"]

\* lines 689-711 for an item that has a stored record at position old; old_item is
\* the record as read at line 582
UpdateStored(item, old, old_item, ids, st, env, routing_scheme) ==
    IF is_new_version(item, old_item)
    THEN IF FaultAt(env, item, "persist") THEN ItemFailed(st, item)
         ELSE LET merged == DictUpdate(DictUpdate(item, old_item), item)
                  st1 == [st EXCEPT !.db = patch_in_mongo(@, old, item)]
              IN  [ok |-> TRUE,
                   ids |-> Append(ids, merged.id),
                   st |-> IF routing_scheme
                          THEN [st1 EXCEPT !.routed = Append(@, merged.id)]
                          ELSE st1,
                   item |-> merged, path |-> "updated"]
    ELSE [ok |-> TRUE, ids |-> ids, st |-> st, item |-> DictUpdate(item, old_item),
          path |-> "merged"]

\* variant of InsertNew: a failure returns the ids collected before it
InsertNewFailingWithIds(item, ids, st, env, routing_scheme) ==
    IF FaultAt(env, item, "persist")
    THEN [ok |-> FALSE, ids |-> ids, st |-> st, item |-> item, path |-> "raised"]
    ELSE LET st1 == [st EXCEPT !.db = post_in_mongo(@, item)]
         IN  [ok |-> TRUE,
              ids |-> Append(ids, item.id),
              st |-> IF routing_scheme
                     THEN [st1 EXCEPT !.routed = Append(@, item.id)]
                     ELSE st1,
              item |-> item, path |-> "inserted"]

\* lines 700-711 for an item that has no stored record
InsertNew(item, ids, st, env, routing_scheme) ==
    IF FaultAt(env, item, "persist") THEN ItemFailed(st, item)
    ELSE LET st1 == [st EXCEPT !.db = post_in_mongo(@, item)]
         IN  [ok |-> TRUE,
              ids |-> Append(ids, item.id),
              st |-> IF routing_scheme
                     THEN [st1 EXCEPT !.routed = Append(@, item.id)]
                     ELSE st1,
              item |-> item, path |-> "inserted"]

\* lines 584-586 and 598-612 for an item whose stored record is at position old (0 for
\* none): the item with its id, provenance, state and expiry, and the state with the
\* id generated for it
Prepared(item, old, provider, expiry, now, st) ==
    LET generated == old = 0 /\ item.id = AbsentStr
        id == IF generated THEN IdOf(st.nextId + 1) ELSE item.id
        withId == IF old # 0 THEN item ELSE [item EXCEPT !.id = id, !.family_id = id]
        stamped ==
            [withId EXCEPT
                !.ingest_provider = provider.id,
                !.source = IF @ = AbsentStr
                           THEN (IF provider.source = AbsentStr THEN "" ELSE provider.source)
                           ELSE @,
                !.uri = IF @ = AbsentStr THEN item.guid ELSE @]
    IN  [item |-> set_expiry(set_default_state(stamped, CONTENT_STATE_INGESTED),
                             provider, expiry, now),
         st |-> IF generated THEN [st EXCEPT !.nextId = @ + 1] ELSE st,
         ids |-> <<>>]

\* variant of ingest_cancel: only the records with the item's GUID are cancelled
ingest_cancel_by_guid(item, store) ==
    IF item.uri = AbsentStr THEN store
    ELSE [i \in 1..Len(store) |->
            IF store[i].guid = item.guid
            THEN [store[i] EXCEPT !.pubstatus = PUB_STATUS_CANCELED, !.state = CONTENT_STATE_KILLED]
            ELSE store[i]]

\* ingest_cancel(item, feeding_service) on the records of the collection: every record
\* with the item's uri is patched
ingest_cancel(item, store) ==
    IF item.uri = AbsentStr THEN store
    ELSE [i \in 1..Len(store) |->
            IF store[i].uri = item.uri
            THEN [store[i] EXCEPT !.pubstatus = PUB_STATUS_CANCELED, !.state = CONTENT_STATE_KILLED]
            ELSE store[i]]

\* lines 628-630; p is [item, st, ids]
Cancelled(p) ==
    IF p.item.pubstatus \in {PUB_STATUS_CANCELED, "cancelled"}
    THEN [p EXCEPT !.item.state = CONTENT_STATE_KILLED, !.st.db = ingest_cancel(p.item, @)]
    ELSE p

\* variant of ingest_item: disable_item_updates of the provider is not looked at
ingest_item_updating_always(item, provider, env, routing_scheme, expiry, st) ==
    Bind(FindByGuid(st.db, item.guid), LAMBDA old :
        IF old # 0 /\ ~env.should_update
        THEN [ok |-> FALSE, ids |-> <<>>, st |-> st, item |-> item, path |-> "skipped"]
        ELSE Bind(Prepared(item, old, provider, expiry, env.now, st), LAMBDA p :
            IF FaultAt(env, item, "enrich") THEN ItemFailed(p.st, p.item)
            ELSE Bind(IngestAssociations(Cancelled(p), 1, provider, env), LAMBDA linked :
                IF old # 0
                THEN UpdateStored(linked.item, old, st.db[old], linked.ids, linked.st,
                                  env, routing_scheme)
                ELSE InsertNew(linked.item, linked.ids, linked.st, env, routing_scheme))))

ingest_item(item, provider, env, routing_scheme, expiry, st) ==
    Bind(FindByGuid(st.db, item.guid), LAMBDA old :
        IF old # 0 /\ provider.disable_item_updates
        THEN [ok |-> FALSE, ids |-> <<>>, st |-> st, item |-> item, path |-> "skipped"]
        ELSE IF old # 0 /\ ~env.should_update
        THEN [ok |-> FALSE, ids |-> <<>>, st |-> st, item |-> item, path |-> "skipped"]
        ELSE Bind(Prepared(item, old, provider, expiry, env.now, st), LAMBDA p :
            IF FaultAt(env, item, "enrich") THEN ItemFailed(p.st, p.item)
            ELSE Bind(IngestAssociations(Cancelled(p), 1, provider, env), LAMBDA linked :
                IF old # 0
                THEN UpdateStored(linked.item, old, st.db[old], linked.ids, linked.st,
                                  env, routing_scheme)
                ELSE InsertNew(linked.item, linked.ids, linked.st, env, routing_scheme))))

-----------------------------------------------------------------------------
(* ingest_items.                                                           *)
(* The working state b of a call is [docs, failed, created, st, calls]:    *)
(* the filtered item dictionaries (ingest_item changes them in place),     *)
(* failed_items, created_ids, the state worked on, and the ingest_item     *)
(* calls made for the items of the batch, as [guid, type, refs, routing,   *)
(* ok, ids, path]: the item's GUID, type and references and the routing    *)
(* scheme as passed, the pair the call returned and the way it took.       *)

CONTENT_TYPE_COMPOSITE == "composite"

IsComposite(doc) == doc.type = CONTENT_TYPE_COMPOSITE

\* items_dict.get(guid): position of the last document with that GUID, 0 for None
ItemsDictGet(docs, guid) ==
    LET hits == {i \in 1..Len(docs) : docs[i].guid = guid}
    IN  IF hits = {} THEN 0 ELSE CHOOSE i \in hits : \A j \in hits : j <= i

\* items_in_package after the loop of lines 515-518: the references of the last
\* composite item of the batch
ItemsInPackage(docs) ==
    LET comps == {i \in 1..Len(docs) : IsComposite(docs[i])}
    IN  IF comps = {} THEN {}
        ELSE LET lastc == CHOOSE i \in comps : \A j \in comps : j <= i
             IN  {docs[lastc].refs[k].residRef : k \in 1..Len(docs[lastc].refs)}

\* variant of IngestDoc: the GUID of an item that was not ingested is not recorded
IngestDocForgettingFailure(b, i, provider, env, routing) ==
    Bind(ingest_item(b.docs[i], provider, env, routing, NoneInt, b.st), LAMBDA r :
        [docs |-> [b.docs EXCEPT ![i] = r.item],
         failed |-> b.failed,
         created |-> IF r.ok THEN b.created \o r.ids ELSE b.created,
         st |-> r.st,
         calls |-> Append(b.calls, [guid |-> b.docs[i].guid, type |-> b.docs[i].type,
                                    refs |-> b.docs[i].refs, routing |-> routing,
                                    ok |-> r.ok, ids |-> r.ids, path |-> r.path])])

\* one iteration of the loops of lines 520-531 and 547-551: the ingest_item call for
\* document i and the bookkeeping of its result
IngestDoc(b, i, provider, env, routing) ==
    Bind(ingest_item(b.docs[i], provider, env, routing, NoneInt, b.st), LAMBDA r :
        [docs |-> [b.docs EXCEPT ![i] = r.item],
         failed |-> IF r.ok THEN b.failed ELSE b.failed \cup {b.docs[i].guid},
         created |-> IF r.ok THEN b.created \o r.ids ELSE b.created,
         st |-> r.st,
         calls |-> Append(b.calls, [guid |-> b.docs[i].guid, type |-> b.docs[i].type,
                                    refs |-> b.docs[i].refs, routing |-> routing,
                                    ok |-> r.ok, ids |-> r.ids, path |-> r.path])])

\* the loop of lines 520-531, from document i on
RECURSIVE IngestSimple(_, _, _, _, _, _)
IngestSimple(b, i, provider, env, routing_scheme, in_package) ==
    IF i > Len(b.docs) THEN b
    ELSE IF IsComposite(b.docs[i])
    THEN IngestSimple(b, i + 1, provider, env, routing_scheme, in_package)
    ELSE Bind(IngestDoc(b, i, provider, env, routing_scheme /\ b.docs[i].guid \notin in_package),
              LAMBDA b1 : IngestSimple(b1, i + 1, provider, env, routing_scheme, in_package))

\* one iteration of the loop over the references of a composite, lines 533-544, for
\* reference k; acc is [doc, failed]
RewriteRef(acc, k, docs) ==
    LET ref == acc.doc.refs[k]
        target == ItemsDictGet(docs, ref.residRef)
        rewritten ==
            [residRef |-> IF target # 0 THEN docs[target].id ELSE ref.residRef,
             guid |-> ref.residRef,
             location |-> IF ref.location = AbsentStr THEN "ingest" ELSE ref.location]
    IN  IF ref.residRef \in acc.failed
        THEN [acc EXCEPT !.failed = @ \cup {acc.doc.guid}]
        ELSE [acc EXCEPT !.doc.refs[k] = rewritten]

\* the loop over the references of one composite, lines 533-544, from reference k on
RECURSIVE RewriteRefs(_, _, _)
RewriteRefs(acc, k, docs) ==
    IF k > Len(acc.doc.refs) THEN acc
    ELSE Bind(RewriteRef(acc, k, docs), LAMBDA next : RewriteRefs(next, k + 1, docs))

\* variant of IngestComposite: the composite is ingested with its references as
\* they were delivered
IngestCompositeUnrewritten(b, i, provider, env, routing_scheme) ==
    IF b.docs[i].guid \in b.failed THEN b
    ELSE IngestDoc(b, i, provider, env, routing_scheme)

\* one iteration of the loop of lines 532-551, for the composite document i
IngestComposite(b, i, provider, env, routing_scheme) ==
    Bind(RewriteRefs([doc |-> b.docs[i], failed |-> b.failed], 1, b.docs), LAMBDA rw :
        IF rw.doc.guid \in rw.failed
        THEN [b EXCEPT !.docs[i] = rw.doc, !.failed = rw.failed]
        ELSE Bind([b EXCEPT !.docs[i] = rw.doc, !.failed = rw.failed], LAMBDA b1 :
                IngestDoc(b1, i, provider, env, routing_scheme)))

\* the loop of lines 532-551, from document i on
RECURSIVE IngestComposites(_, _, _, _, _)
IngestComposites(b, i, provider, env, routing_scheme) ==
    IF i > Len(b.docs) THEN b
    ELSE IF ~IsComposite(b.docs[i])
    THEN IngestComposites(b, i + 1, provider, env, routing_scheme)
    ELSE Bind(IngestComposite(b, i, provider, env, routing_scheme),
              LAMBDA b1 : IngestComposites(b1, i + 1, provider, env, routing_scheme))

\* ingest_service.find({"_id": {"$in": created_ids}}), line 558: the stored records
\* with these ids, which line 559 hands to the search backend's bulk_insert
FindByIds(store, created_ids) ==
    SelectSeq(store, LAMBDA rec : \E k \in 1..Len(created_ids) : created_ids[k] = rec.id)

\* ingest_items(items, provider, feeding_service, rule_set, routing_scheme) on state st
ingest_items(items, provider, env, routing_scheme, st) ==
    Bind(filter_expired_items(provider, items, env.now), LAMBDA all_items :
    Bind(ValidatedProvider(provider), LAMBDA valid :
    Bind(IngestSimple([docs |-> all_items, failed |-> {}, created |-> <<>>, st |-> st,
                       calls |-> <<>>],
                      1, valid, env, routing_scheme, ItemsInPackage(all_items)), LAMBDA b1 :
    Bind(IngestComposites(b1, 1, valid, env, routing_scheme), LAMBDA b2 :
        [failed |-> b2.failed, created |-> b2.created, st |-> b2.st,
         indexed |-> FindByIds(b2.st.db, b2.created),
         docs |-> b2.docs, calls |-> b2.calls, provider |-> valid, filtered |-> all_items]))))

-----------------------------------------------------------------------------
(* Providers and what their feeding services deliver.                      *)
(* A provider is its record in ingest_providers.  content_expiry is in     *)
(* minutes, NoneInt when missing; source is AbsentStr when missing;        *)
(* routing_scheme says whether the provider has a routing scheme.          *)
(* last_updated and last_item_update are times, 0 when missing; idle is    *)
(* idle_time as seconds.  feed names the kind of content the provider's    *)
(* feeding service delivers.                                               *)

Provider(feed, source, content_expiry, disable_item_updates) ==
    [id |-> "prov1", name |-> "provider", feed |-> feed, source |-> source,
     content_expiry |-> content_expiry,
     content_types |-> {"text", "picture", "composite"},
     disable_item_updates |-> disable_item_updates,
     routing_scheme |-> TRUE,
     last_updated |-> 0, last_item_update |-> 0, last_item_arrived |-> 0, idle |-> 0]

Providers ==
    {Provider("wire", "AAP", NoneInt, FALSE),
     Provider("wire", AbsentStr, NoneInt, FALSE),
     Provider("wire", "AAP", NoneInt, TRUE),
     Provider("dated", "AAP", NoneInt, FALSE),
     Provider("dated", "AAP", 60, FALSE),
     Provider("dated", "AAP", 0 - 5, FALSE),
     Provider("pictures", "AAP", NoneInt, FALSE),
     Provider("packages", "AAP", NoneInt, FALSE),
     Provider("packages", "AAP", NoneInt, TRUE),
     Provider("cancels", "AAP", NoneInt, FALSE),
     Provider("cancels", "AAP", NoneInt, TRUE)}

\* times of the items delivered
Recent == ClockStart - 600
Old == ClockStart - 3000
Far == ClockStart + 6000

Text(guid, version, versioncreated, expiry, body) ==
    FeedItem(guid, "text", version, versioncreated, expiry, body, <<>>, <<>>)

Picture(guid, version) ==
    FeedItem(guid, "picture", version, Recent, AbsentInt, AbsentStr, <<>>, <<>>)

WithPicture(item, picture) == [item EXCEPT !.assoc = <<picture>>]

Package(guid, residRefs) ==
    FeedItem(guid, CONTENT_TYPE_COMPOSITE, <<>>, Recent, AbsentInt, AbsentStr,
             [k \in 1..Len(residRefs) |-> Ref(residRefs[k])], <<>>)

\* the item with a pubstatus
WithPubstatus(item, pubstatus) == [item EXCEPT !.pubstatus = pubstatus]

\* the item with a uri of its own
WithUri(item, uri) == [item EXCEPT !.uri = uri]

WireItems ==
    {Text("a", v, Recent, AbsentInt, "x") : v \in {<<>>, <<2>>, <<1, 0>>}}
    \cup {Text("a", <<>>, 0, AbsentInt, b) : b \in {"x", "y", ""}}

DatedItems ==
    {Text("a", <<>>, t, e, "x") : t \in {0, Recent, Old}, e \in {AbsentInt, NoneInt, Far}}

PictureItems ==
    {WithPicture(Text("a", v, Recent, e, "x"), Picture("m", <<>>)) :
        v \in {<<2>>, <<1, 0>>}, e \in {AbsentInt, NoneInt, Far}}
    \cup {Picture("m", <<>>)}
    \cup {WithPicture(Text("a", <<2>>, Recent, AbsentInt, "x"), Picture("a", <<>>))}

PackageBatches ==
    LET a == Text("a", <<>>, Recent, AbsentInt, "x")
        b == Text("b", <<>>, Recent, AbsentInt, "x")
    IN  {<<a>>,
         <<a, Package("p", <<"a">>)>>,
         <<a, b, Package("p", <<"a", "b">>)>>,
         <<b, Package("q", <<"b">>)>>,
         <<a, b, Package("p", <<"a">>), Package("q", <<"b">>)>>,
         <<Package("p", <<"q">>), Package("q", <<"b">>), b>>}

\* a story and a second item with the story's uri, and cancellations of the story
CancelBatches ==
    LET a == WithUri(Text("a", <<1>>, Recent, AbsentInt, "x"), "u")
        b == WithUri(Text("b", <<1>>, Recent, AbsentInt, "x"), "u")
        c == Text("c", <<1>>, Recent, AbsentInt, "x")
    IN  {<<a, b, c>>,
         <<WithPubstatus(a, "cancelled")>>,
         <<WithPubstatus([a EXCEPT !.version = <<2>>], PUB_STATUS_CANCELED)>>}

\* the batches a feeding service of the kind can deliver
Feed(kind) ==
    CASE kind = "wire" -> {<<i>> : i \in WireItems}
      [] kind = "dated" -> {<<i>> : i \in DatedItems}
      [] kind = "pictures" -> {<<i>> : i \in PictureItems}
      [] kind = "packages" -> PackageBatches
      [] kind = "cancels" -> CancelBatches
      [] kind = "run" -> {<<>>, <<Text("a", <<>>, Recent, AbsentInt, "x")>>}

NoFault == [should_update |-> TRUE, fault_guid |-> AbsentStr, fault_kind |-> "none"]
Fault(guid, kind) == [should_update |-> TRUE, fault_guid |-> guid, fault_kind |-> kind]

\* what the collaborators may do during one ingest_items call on such a feed
Faults(kind) ==
    CASE kind = "wire" ->
            {NoFault, [NoFault EXCEPT !.should_update = FALSE],
             Fault("a", "enrich"), Fault("a", "persist")}
      [] kind = "dated" -> {NoFault}
      [] kind = "pictures" -> {NoFault, Fault("m", "persist"), Fault("a", "persist")}
      [] kind = "packages" ->
            {NoFault, Fault("a", "persist"), Fault("b", "enrich"),
             Fault("p", "persist"), Fault("q", "persist")}
      [] kind = "cancels" ->
            {NoFault, [NoFault EXCEPT !.should_update = FALSE],
             Fault("a", "enrich"), Fault("a", "persist")}
      [] kind = "run" -> {NoFault, Fault("a", "persist")}

Env(f, now) ==
    [now |-> now, should_update |-> f.should_update,
     fault_guid |-> f.fault_guid, fault_kind |-> f.fault_kind]

-----------------------------------------------------------------------------
(* The state machine of the ingest calls: ingest_items called, one call    *)
(* after another, with the batches of the provider's feed.                 *)

NoCall ==
    [items |-> <<>>, provider |-> Provider("none", AbsentStr, NoneInt, FALSE),
     env |-> Env(NoFault, 0), before |-> <<>>, routedBefore |-> <<>>,
     prevItems |-> <<>>, prevFailed |-> {}, filtered |-> <<>>,
     failed |-> {}, created |-> <<>>, indexed |-> <<>>, docs |-> <<>>, calls |-> <<>>,
     providerAfter |-> Provider("none", AbsentStr, NoneInt, FALSE)]

\* the lock is free, no run of update_provider exists
NoRuns ==
    /\ lockDoc = [owner |-> "nobody", expire |-> 0]
    /\ pc = <<>>
    /\ run = <<>>
    /\ notes = <<>>

InitIngest ==
    /\ clock = ClockStart
    /\ db = <<>>
    /\ nextId = 0
    /\ routed = <<>>
    /\ last = NoCall
    /\ ncalls = 0
    /\ providerDb \in Providers
    /\ NoRuns

\* time passes
Tick ==
    /\ clock < ClockStart + MaxTicks * TickStep
    /\ clock' = clock + TickStep
    /\ UNCHANGED <<db, nextId, routed, last, ncalls, lockDoc, pc, run, providerDb, notes>>

\* one call ingest_items(items, provider, feeding_service, rule_set, routing_scheme)
IngestBatch(items, f) ==
    /\ ncalls < MaxCalls
    /\ \E r \in {ingest_items(items, providerDb, Env(f, clock), providerDb.routing_scheme,
                               [db |-> db, nextId |-> nextId, routed |-> routed])} :
        /\ db' = r.st.db
        /\ nextId' = r.st.nextId
        /\ routed' = r.st.routed
        /\ last' = [items |-> items, provider |-> providerDb, env |-> Env(f, clock),
                    before |-> db, routedBefore |-> routed,
                    prevItems |-> last.items, prevFailed |-> last.failed,
                    filtered |-> r.filtered,
                    failed |-> r.failed, created |-> r.created, indexed |-> r.indexed,
                    docs |-> r.docs,
                    calls |-> r.calls, providerAfter |-> r.provider]
    /\ ncalls' = ncalls + 1
    /\ UNCHANGED <<clock, lockDoc, pc, run, providerDb, notes>>

Ingest == \E items \in Feed(providerDb.feed), f \in Faults(providerDb.feed) : IngestBatch(items, f)

NextIngest == Tick \/ Ingest

SpecIngest == InitIngest /\ [][NextIngest]_vars


-----------------------------------------------------------------------------
(* The lock service, superdesk.lock: one record per lock name, here the    *)
(* record of the provider's lock, [owner, expire].  A lock is held until   *)
(* its owner releases it or its time-to-live runs out.                     *)

NoOwner == "nobody"

LockFree(doc, now) == doc.owner = NoOwner \/ doc.expire <= now

\* lock(lock_name, expire=ttl) by owner r: whether it succeeds
LockGranted(doc, r, now) == LockFree(doc, now)

\* touch(lock_name, expire=ttl) by owner r: whether it succeeds
TouchGranted(doc, r, now) == doc.owner = r /\ doc.expire > now

\* the record after a successful lock or touch
Leased(r, now, ttl) == [owner |-> r, expire |-> now + ttl]

\* unlock(lock_name) by owner r: only the owner's lock is released
Released(doc, r) == IF doc.owner = r THEN [doc EXCEPT !.owner = NoOwner] ELSE doc

-----------------------------------------------------------------------------
(* update_provider.  Each run is one execution of the task; pc is its      *)
(* position:                                                               *)
(*   "idle"    dispatched, before line 293                                 *)
(*   "loop"    at the head of the while loop, line 313                     *)
(*   "fetch"   the lock renewed, at generator.send, line 316               *)
(*   "finish"  the loop left by StopIteration, at line 328                 *)
(*   "done"    returned or raised                                          *)
(* run[r] holds the run's argument and locals (provider, update,           *)
(* failed) and what the run did: acquired, lease (the expiry granted by    *)
(* its last successful lock or touch), touches and fetches (successful     *)
(* renewals, fetch steps), batches (ingest_items calls), touchFailed,      *)
(* wrote (the provider record was written), unlocked (unlock was called),  *)
(* outcome ("skipped", "aborted", "completed", "raised"), sent (the value  *)
(* passed to the last generator.send), returned (the failed set the last   *)
(* ingest_items call returned), error (the exception the run raised to its *)
(* caller), arrived (a fetch step yielded an item) and stored (an          *)
(* ingest_items call of the run created or updated a record).              *)

Runs == {"w1", "w2"}

LAST_UPDATED == "last_updated"
LAST_ITEM_UPDATE == "last_item_update"
LAST_ITEM_ARRIVED == "last_item_arrived"

NoUpdate == [last_updated |-> 0, last_item_update |-> 0, last_item_arrived |-> 0]

\* IngestFileError(3000, e, provider), and no exception
NoError == [code |-> 0, provider |-> AbsentStr]
IngestFileError(code, provider) == [code |-> code, provider |-> provider.id]

NewRun(provider) ==
    [provider |-> provider, update |-> NoUpdate, failed |-> <<>>,
     acquired |-> FALSE, lease |-> 0, touches |-> 0, fetches |-> 0, batches |-> 0,
     touchFailed |-> FALSE, wrote |-> FALSE, unlocked |-> FALSE, outcome |-> "none",
     sent |-> <<>>, returned |-> {}, error |-> NoError, arrived |-> FALSE, stored |-> FALSE]

RunProviders ==
    {[Provider("run", "AAP", NoneInt, FALSE) EXCEPT !.last_item_update = Old, !.idle = 600]}

NoNotes == [quiet |-> 0, update |-> 0]

Init ==
    /\ clock = ClockStart
    /\ db = <<>>
    /\ nextId = 0
    /\ routed = <<>>
    /\ last = NoCall
    /\ ncalls = 0
    /\ lockDoc = [owner |-> NoOwner, expire |-> 0]
    /\ providerDb \in RunProviders
    /\ pc = [r \in Runs |-> "idle"]
    /\ run = [r \in Runs |-> NewRun(providerDb)]
    /\ notes = [r \in Runs |-> NoNotes]

\* the except and finally clauses, lines 347-351, and the end of the run
Exit(r, outcome) ==
    /\ lockDoc' = Released(lockDoc, r)
    /\ pc' = [pc EXCEPT ![r] = "done"]
    /\ run' = [run EXCEPT ![r].unlocked = TRUE, ![r].outcome = outcome,
                          ![r].error = IF outcome = "raised"
                                       THEN IngestFileError(3000, run[r].provider)
                                       ELSE NoError]

\* variant of Start: the run goes on whether or not the lock was granted
StartRegardlessOfLock(r) ==
    /\ pc[r] = "idle"
    /\ IF LockGranted(lockDoc, r, clock)
       THEN /\ lockDoc' = Leased(r, clock, UPDATE_TTL + 10)
            /\ run' = [run EXCEPT ![r].acquired = TRUE,
                                  ![r].lease = clock + UPDATE_TTL + 10,
                                  ![r].update.last_updated = clock]
       ELSE /\ run' = [run EXCEPT ![r].update.last_updated = clock]
            /\ UNCHANGED lockDoc
    /\ pc' = [pc EXCEPT ![r] = "loop"]
    /\ UNCHANGED <<clock, db, nextId, routed, last, ncalls, providerDb, notes>>

\* variant of Start: the lock is taken inside the try block, so that a skipped run
\* passes through the finally clause
StartUnlockingWhenSkipped(r) ==
    /\ pc[r] = "idle"
    /\ IF LockGranted(lockDoc, r, clock)
       THEN /\ lockDoc' = Leased(r, clock, UPDATE_TTL + 10)
            /\ pc' = [pc EXCEPT ![r] = "loop"]
            /\ run' = [run EXCEPT ![r].acquired = TRUE,
                                  ![r].lease = clock + UPDATE_TTL + 10,
                                  ![r].update.last_updated = clock]
       ELSE Exit(r, "skipped")
    /\ UNCHANGED <<clock, db, nextId, routed, last, ncalls, providerDb, notes>>

\* lines 293-310: the lock is taken and the run set up, or the run is skipped
Start(r) ==
    /\ pc[r] = "idle"
    /\ IF LockGranted(lockDoc, r, clock)
       THEN /\ lockDoc' = Leased(r, clock, UPDATE_TTL + 10)
            /\ pc' = [pc EXCEPT ![r] = "loop"]
            /\ run' = [run EXCEPT ![r].acquired = TRUE,
                                  ![r].lease = clock + UPDATE_TTL + 10,
                                  ![r].update.last_updated = clock]
       ELSE /\ pc' = [pc EXCEPT ![r] = "done"]
            /\ run' = [run EXCEPT ![r].outcome = "skipped"]
            /\ UNCHANGED lockDoc
    /\ UNCHANGED <<clock, db, nextId, routed, last, ncalls, providerDb, notes>>

\* variant of Touch: a failed renewal returns before the try block, past the
\* finally clause
TouchAbortKeepingLock(r) ==
    /\ pc[r] = "loop"
    /\ IF TouchGranted(lockDoc, r, clock)
       THEN /\ lockDoc' = Leased(r, clock, UPDATE_TTL)
            /\ pc' = [pc EXCEPT ![r] = "fetch"]
            /\ run' = [run EXCEPT ![r].lease = clock + UPDATE_TTL, ![r].touches = @ + 1]
       ELSE /\ UNCHANGED lockDoc
            /\ pc' = [pc EXCEPT ![r] = "done"]
            /\ run' = [run EXCEPT ![r].touchFailed = TRUE, ![r].outcome = "aborted"]
    /\ UNCHANGED <<clock, db, nextId, routed, last, ncalls, providerDb, notes>>

\* variant of Touch: the result of the renewal is ignored
TouchIgnoringFailure(r) ==
    /\ pc[r] = "loop"
    /\ IF TouchGranted(lockDoc, r, clock)
       THEN /\ lockDoc' = Leased(r, clock, UPDATE_TTL)
            /\ run' = [run EXCEPT ![r].lease = clock + UPDATE_TTL, ![r].touches = @ + 1]
       ELSE /\ UNCHANGED lockDoc
            /\ run' = [run EXCEPT ![r].touchFailed = TRUE]
    /\ pc' = [pc EXCEPT ![r] = "fetch"]
    /\ UNCHANGED <<clock, db, nextId, routed, last, ncalls, providerDb, notes>>

\* lines 313-315: the lock is renewed, or the run returns
Touch(r) ==
    /\ pc[r] = "loop"
    /\ IF TouchGranted(lockDoc, r, clock)
       THEN /\ lockDoc' = Leased(r, clock, UPDATE_TTL)
            /\ pc' = [pc EXCEPT ![r] = "fetch"]
            /\ run' = [run EXCEPT ![r].lease = clock + UPDATE_TTL, ![r].touches = @ + 1]
       ELSE /\ lockDoc' = Released(lockDoc, r)
            /\ pc' = [pc EXCEPT ![r] = "done"]
            /\ run' = [run EXCEPT ![r].touchFailed = TRUE, ![r].unlocked = TRUE,
                                  ![r].outcome = "aborted"]
    /\ UNCHANGED <<clock, db, nextId, routed, last, ncalls, providerDb, notes>>

\* variant of update_last_item_updated: an empty batch counts as an update, too
update_last_item_updated_always(update, items, now) ==
    LET stamps == {items[i].versioncreated : i \in 1..Len(items)} \ {0}
        last_item_update ==
            IF stamps = {} THEN now ELSE CHOOSE t \in stamps : \A u \in stamps : u <= t
    IN  IF update.last_item_update = 0 \/ update.last_item_update < last_item_update
        THEN [update EXCEPT !.last_item_update = last_item_update]
        ELSE update

\* update_last_item_updated(update, items)
update_last_item_updated(update, items, now) ==
    IF items = <<>> THEN update
    ELSE LET stamps == {items[i].versioncreated : i \in 1..Len(items)} \ {0}
             last_item_update ==
                IF stamps = {} THEN now ELSE CHOOSE t \in stamps : \A u \in stamps : u <= t
         IN  IF update.last_item_update = 0 \/ update.last_item_update < last_item_update
             THEN [update EXCEPT !.last_item_update = last_item_update]
             ELSE update

\* variant of FetchBatch: the failed set ingest_items returns is not kept
FetchBatchDroppingFailed(r, items, f) ==
    /\ pc[r] = "fetch"
    /\ run[r].fetches < MaxBatches
    /\ \E res \in {ingest_items(items, run[r].provider, Env(f, clock),
                                 run[r].provider.routing_scheme,
                                 [db |-> db, nextId |-> nextId, routed |-> routed])} :
        /\ db' = res.st.db
        /\ nextId' = res.st.nextId
        /\ routed' = res.st.routed
        /\ run' = [run EXCEPT
                ![r].provider = res.provider,
                ![r].fetches = @ + 1,
                ![r].batches = @ + 1,
                ![r].sent = run[r].failed,
                ![r].returned = res.failed,
                ![r].arrived = @ \/ items # <<>>,
                ![r].stored = @ \/ res.created # <<>>,
                ![r].update = [update_last_item_updated(@, items, clock)
                                 EXCEPT !.last_item_arrived = clock]]
    /\ pc' = [pc EXCEPT ![r] = "loop"]
    /\ UNCHANGED <<clock, last, ncalls, lockDoc, providerDb, notes>>

\* lines 316-321: the fetch step yields a batch, which is ingested
FetchBatch(r, items, f) ==
    /\ pc[r] = "fetch"
    /\ run[r].fetches < MaxBatches
    /\ \E res \in {ingest_items(items, run[r].provider, Env(f, clock),
                                 run[r].provider.routing_scheme,
                                 [db |-> db, nextId |-> nextId, routed |-> routed])} :
        /\ db' = res.st.db
        /\ nextId' = res.st.nextId
        /\ routed' = res.st.routed
        /\ run' = [run EXCEPT
                ![r].provider = res.provider,
                ![r].failed = <<res.failed>>,
                ![r].fetches = @ + 1,
                ![r].batches = @ + 1,
                ![r].sent = run[r].failed,
                ![r].returned = res.failed,
                ![r].arrived = @ \/ items # <<>>,
                ![r].stored = @ \/ res.created # <<>>,
                ![r].update = [update_last_item_updated(@, items, clock)
                                 EXCEPT !.last_item_arrived = clock]]
    /\ pc' = [pc EXCEPT ![r] = "loop"]
    /\ UNCHANGED <<clock, last, ncalls, lockDoc, providerDb, notes>>

\* lines 316, 323-324: the fetch step signals the end of the sequence
FetchEnd(r) ==
    /\ pc[r] = "fetch"
    /\ pc' = [pc EXCEPT ![r] = "finish"]
    /\ run' = [run EXCEPT ![r].fetches = @ + 1, ![r].sent = run[r].failed]
    /\ UNCHANGED <<clock, db, nextId, routed, last, ncalls, lockDoc, providerDb, notes>>

\* variant of Raise: the exception leaves the run as it is, past the finally clause
RaiseKeepingLock(r) ==
    /\ pc[r] \in {"loop", "fetch", "finish"}
    /\ pc' = [pc EXCEPT ![r] = "done"]
    /\ run' = [run EXCEPT ![r].outcome = "raised", ![r].error = [code |-> 1, provider |-> AbsentStr]]
    /\ UNCHANGED <<clock, db, nextId, routed, last, ncalls, lockDoc, providerDb, notes>>

\* lines 347-351: an exception of the lock renewal, of the feeding service, of
\* ingest_items or of the final update ends the run with IngestFileError
Raise(r) ==
    /\ pc[r] \in {"loop", "fetch", "finish"}
    /\ Exit(r, "raised")
    /\ UNCHANGED <<clock, db, nextId, routed, last, ncalls, providerDb, notes>>

\* get_is_idle(provider); idle_time is provider.idle, in seconds
get_is_idle(provider, now) ==
    /\ provider.last_item_update # 0
    /\ provider.idle # 0
    /\ now > provider.last_item_update + provider.idle

\* ingest_provider_service.system_update(id, update, provider)
ProviderUpdated(provider, update) ==
    [provider EXCEPT
        !.last_updated = IF update.last_updated # 0 THEN update.last_updated ELSE @,
        !.last_item_update = IF update.last_item_update # 0 THEN update.last_item_update ELSE @,
        !.last_item_arrived = IF update.last_item_arrived # 0 THEN update.last_item_arrived ELSE @]

\* variant of Finish: the quiet alert does not depend on what arrived during the run
FinishAlertingWhenIdle(r) ==
    /\ pc[r] = "finish"
    /\ providerDb' = ProviderUpdated(providerDb, run[r].update)
    /\ notes' = [notes EXCEPT
            ![r].quiet = IF get_is_idle(providerDb, clock) THEN @ + 1 ELSE @,
            ![r].update = IF run[r].update.last_item_update # 0 THEN @ + 1 ELSE @]
    /\ lockDoc' = Released(lockDoc, r)
    /\ pc' = [pc EXCEPT ![r] = "done"]
    /\ run' = [run EXCEPT ![r].wrote = TRUE, ![r].unlocked = TRUE, ![r].outcome = "completed"]
    /\ UNCHANGED <<clock, db, nextId, routed, last, ncalls>>

\* lines 328-346 and 351: the provider record is updated, the alerts are sent, the lock
\* is released
Finish(r) ==
    /\ pc[r] = "finish"
    /\ providerDb' = ProviderUpdated(providerDb, run[r].update)
    /\ notes' = [notes EXCEPT
            ![r].quiet = IF run[r].update.last_item_update = 0 /\ get_is_idle(providerDb, clock)
                         THEN @ + 1 ELSE @,
            ![r].update = IF run[r].update.last_item_update # 0 THEN @ + 1 ELSE @]
    /\ lockDoc' = Released(lockDoc, r)
    /\ pc' = [pc EXCEPT ![r] = "done"]
    /\ run' = [run EXCEPT ![r].wrote = TRUE, ![r].unlocked = TRUE, ![r].outcome = "completed"]
    /\ UNCHANGED <<clock, db, nextId, routed, last, ncalls>>

Fetch(r) == \E items \in Feed(run[r].provider.feed), f \in Faults(run[r].provider.feed) : FetchBatch(r, items, f)

\* one step of run r
RunStep(r) == Start(r) \/ Touch(r) \/ Fetch(r) \/ FetchEnd(r) \/ Raise(r) \/ Finish(r)

Next == Tick \/ \E r \in Runs : RunStep(r)

Spec == Init /\ [][Next]_vars

\* a run that has started goes on
FairSpec == Spec /\ \A r \in Runs : WF_vars(RunStep(r))

-----------------------------------------------------------------------------
(* Properties of the ingest calls *)

Range(seq) == {seq[i] : i \in 1..Len(seq)}

\* the stored record of a GUID
Stored(store, guid) == store[FindByGuid(store, guid)]

\* the last call had no fault injected and should_update said yes
LastUndisturbed == last.env.fault_kind = "none" /\ last.env.should_update

\* the last call delivered one item that passed the filter, and that item
LastSingle == Len(last.items) = 1 /\ Len(last.filtered) = 1
LastItem == last.items[1]

\* the last call delivered the very item of the call before it, which had ingested it
ReingestedIdentical ==
    /\ ncalls >= 2
    /\ LastSingle
    /\ last.items = last.prevItems
    /\ last.prevFailed = {}
    /\ FindByGuid(last.before, LastItem.guid) # 0
    /\ LastUndisturbed

\* C5: ingesting an item and then the identical item again leaves the stored record of
\* its GUID as the first ingest left it, returns no created/updated id for it and
\* applies no routing.
C5_ReingestIdenticalIsNoop ==
    ReingestedIdentical =>
        /\ Stored(db, LastItem.guid) = Stored(last.before, LastItem.guid)
        /\ Stored(db, LastItem.guid).id \notin Range(last.created)
        /\ routed = last.routedBefore

\* the last call passed to ingest_item one item that has a stored record with a
\* numeric version, and carries a strictly greater numeric version
GreaterVersionDelivered ==
    /\ LastSingle
    /\ Len(last.calls) = 1
    /\ FindByGuid(last.before, LastItem.guid) # 0
    /\ IsDigits(LastItem.version)
    /\ IsDigits(Stored(last.before, LastItem.guid).version)
    /\ ParseInt(LastItem.version) > ParseInt(Stored(last.before, LastItem.guid).version)

\* the stored record of the last item is the record as it was, updated with the incoming
\* version, and its id is among the created/updated ids
WrittenAsNewVersion ==
    LET old == Stored(last.before, LastItem.guid)
        new == Stored(db, LastItem.guid)
    IN  /\ new.version = LastItem.version
        /\ new.body = LastItem.body
        /\ new.id = old.id
        /\ new.id \in Range(last.created)

C9_ExpirySetAfterIngest ==
    \A i \in 1..Len(last.docs) :
        (\E c \in Range(last.calls) : c.guid = last.docs[i].guid /\ c.ok) =>
            /\ last.docs[i].expiry \notin {NoneInt, AbsentInt}
            /\ Stored(db, last.docs[i].guid).expiry \notin {NoneInt, AbsentInt}

\* the expiry set_expiry computes for a delivered item with the global default duration
DefaultExpiry(item, now) ==
    (IF item.versioncreated # 0 THEN item.versioncreated ELSE now)
        + Minutes(INGEST_EXPIRY_MINUTES)

\* C10: with a negative content_expiry on the provider, filter_expired_items discards
\* the override and filters with the global default duration, and every item then
\* written in that batch whose expiry is computed gets it from the global default.
C10_NegativeContentExpiryDiscarded ==
    last.provider.content_expiry < 0 =>
        /\ last.providerAfter.content_expiry = NoneInt
        /\ last.filtered =
             SelectSeq(last.items, LAMBDA item :
                /\ is_not_expired(item, Minutes(INGEST_EXPIRY_MINUTES), last.env.now)
                /\ TypeOrText(item) \in last.provider.content_types)
        /\ \A i \in 1..Len(last.docs) :
             (last.filtered[i].expiry = AbsentInt /\ last.docs[i].id \in Range(last.created)) =>
                /\ last.docs[i].expiry = DefaultExpiry(last.filtered[i], last.env.now)
                /\ Stored(db, last.docs[i].guid).expiry = DefaultExpiry(last.filtered[i], last.env.now)

C10_Witness ==
    /\ last.provider.content_expiry < 0
    /\ \E i \in 1..Len(last.docs) :
         /\ last.filtered[i].expiry = AbsentInt
         /\ last.docs[i].id \in Range(last.created)
         /\ Stored(db, last.docs[i].guid).expiry = DefaultExpiry(last.filtered[i], last.env.now)


\* the ingest_item calls of the last batch made for a GUID
CallsFor(guid) == {j \in 1..Len(last.calls) : last.calls[j].guid = guid}

\* document i of the last batch is a composite with a reference to a GUID of the
\* failed set the call returned
RefersToFailed(i) ==
    /\ IsComposite(last.filtered[i])
    /\ \E k \in 1..Len(last.filtered[i].refs) : last.filtered[i].refs[k].residRef \in last.failed

\* C7: a composite item with a reference whose target GUID is in the batch's failed set
\* is itself in the failed set and was not passed to ingest_item, so that storage holds
\* no record written for it.
C7_CompositeOfFailedNotIngested ==
    \A i \in 1..Len(last.filtered) :
        RefersToFailed(i) =>
            /\ last.filtered[i].guid \in last.failed
            /\ CallsFor(last.filtered[i].guid) = {}
            /\ GuidMatches(db, last.filtered[i].guid) = GuidMatches(last.before, last.filtered[i].guid)

\* processing an item of the last batch raised
SomeItemRaised ==
    /\ last.env.fault_kind # "none"
    /\ \E j \in 1..Len(last.calls) : last.calls[j].guid = last.env.fault_guid /\ ~last.calls[j].ok

\* C8: an exception while ingest_item processes one item of a batch does not abort the
\* batch: every other item that passed the filter is passed to ingest_item, unless it
\* is a composite that is in the failed set, and the returned failed set holds the GUID
\* of the item whose processing raised.
C8_ItemFailureIsolated ==
    SomeItemRaised =>
        /\ last.env.fault_guid \in last.failed
        /\ \A i \in 1..Len(last.filtered) :
             \/ CallsFor(last.filtered[i].guid) # {}
             \/ IsComposite(last.filtered[i]) /\ last.filtered[i].guid \in last.failed
        /\ \A j \in 1..Len(last.calls) : ~last.calls[j].ok => last.calls[j].guid \in last.failed

C8_Witness ==
    /\ SomeItemRaised
    /\ \E j, k \in 1..Len(last.calls) : j < k /\ ~last.calls[j].ok /\ last.calls[k].ok

-----------------------------------------------------------------------------
(* Properties of the provider runs *)

\* run r is between its successful lock acquisition and its exit
Active(r) == pc[r] \in {"loop", "fetch", "finish"}

\* the lease of run r, granted by its last successful lock or touch, has not run out
LeaseValid(r) == run[r].acquired /\ run[r].lease > clock

\* C1 (as stated): at most one run of update_provider for the provider is active at
\* any time.
C1_AtMostOneActiveRun ==
    \A r1, r2 \in Runs : (Active(r1) /\ Active(r2)) => r1 = r2

\* C1 (amended): every active run has acquired the lock, and of two runs active at
\* the same time at least one has outlived the lease of its last successful
\* acquisition or renewal: at most one active run has a lease that has not run out.
C1_AtMostOneActiveLease ==
    \A r1 \in Runs : Active(r1) =>
        /\ run[r1].acquired
        /\ \A r2 \in Runs \ {r1} : Active(r2) => (~LeaseValid(r1) \/ ~LeaseValid(r2))

C1_Witness ==
    \E r1, r2 \in Runs :
        /\ r1 # r2
        /\ Active(r1) /\ ~LeaseValid(r1)
        /\ Active(r2) /\ LeaseValid(r2)

\* C2: a run that fails to acquire the lock because another run holds it ends at once,
\* skipped: it fetches and ingests nothing, leaves storage, the provider record, the
\* notifications and the lock as they are, calls no unlock and raises nothing.
C2_SkippedRunChangesNothing ==
    [][\A r \in Runs :
        (pc[r] = "idle" /\ pc'[r] # "idle" /\ ~LockFree(lockDoc, clock)) =>
            /\ pc'[r] = "done"
            /\ run'[r] = [run[r] EXCEPT !.outcome = "skipped"]
            /\ UNCHANGED <<lockDoc, db, nextId, routed, providerDb, notes, clock>>]_vars

C2_Witness ==
    \E r, r2 \in Runs :
        /\ r # r2
        /\ run[r].outcome = "skipped" /\ pc[r] = "done" /\ ~run[r].unlocked
        /\ run[r].fetches = 0 /\ run[r].batches = 0
        /\ lockDoc.owner = r2 /\ Active(r2)

\* C3: every run that acquires the lock eventually calls unlock and is done, and no
\* longer owns the lock then, whether it completes, aborts on a failed renewal or ends
\* with an exception.
C3_AcquiredEventuallyReleased ==
    \A r \in Runs :
        run[r].acquired ~> (pc[r] = "done" /\ run[r].unlocked /\ lockDoc.owner # r)

C3_Witness ==
    \E r1, r2 \in Runs :
        /\ r1 # r2
        /\ run[r1].outcome = "aborted" /\ run[r1].unlocked
        /\ run[r2].outcome = "completed" /\ run[r2].unlocked
        /\ lockDoc.owner = NoOwner

\* C4: every fetch step follows a renewal of the lock that succeeded, and a run whose
\* renewal failed is done, aborted without raising: it fetched and ingested nothing
\* after the failed renewal, did not write the provider record and emitted no quiet
\* alert and no change notification.
C4_FailedRenewalAbortsRun ==
    \A r \in Runs :
        /\ run[r].fetches <= run[r].touches
        /\ pc[r] = "fetch" => run[r].touches = run[r].fetches + 1
        /\ run[r].touchFailed =>
            /\ pc[r] = "done"
            /\ run[r].outcome = "aborted"
            /\ run[r].fetches = run[r].touches
            /\ ~run[r].wrote
            /\ notes[r] = NoNotes

C4_Witness ==
    \E r \in Runs :
        /\ run[r].touchFailed /\ pc[r] = "done" /\ run[r].outcome = "aborted"
        /\ run[r].batches >= 1


-----------------------------------------------------------------------------
(* Properties of cancellations *)

\* item.get("uri") after line 600
UriOf(item) == IF item.uri = AbsentStr THEN item.guid ELSE item.uri

\* the last call passed one item to ingest_item, a cancellation
CancelDelivered ==
    /\ LastSingle
    /\ Len(last.calls) = 1
    /\ LastItem.pubstatus \in {PUB_STATUS_CANCELED, "cancelled"}

\* every stored record with the uri of the last item is killed
RelativesKilled ==
    \A i \in 1..Len(db) : db[i].uri = UriOf(LastItem) => db[i].state = CONTENT_STATE_KILLED

CancelReached ==
    /\ \/ FindByGuid(last.before, LastItem.guid) = 0
       \/ ~last.provider.disable_item_updates /\ last.env.should_update
    /\ ~FaultAt(last.env, LastItem, "enrich")

\* the last item had no stored record, or is a new version of it
LastIsNew ==
    \/ FindByGuid(last.before, LastItem.guid) = 0
    \/ Stored(last.before, LastItem.guid).id \in Range(last.created)

-----------------------------------------------------------------------------
(* process_iptc_codes.                                                     *)
(* A qcode is a string of character codes; an entry of item["subject"] is  *)
(* [qcode, name], qcode <<>> when the entry has no "qcode" key.            *)
(* subject_codes, the code table, is the set of the codes it has a name    *)
(* for.                                                                    *)

\* qcode[:n] + zeros
Level(qcode, n) == SubSeq(qcode, 1, n) \o [k \in 1..(8 - n) |-> 0]

\* iptc_already_exists(code), lines 414-418
iptc_already_exists(subject, code) ==
    \E k \in 1..Len(subject) : subject[k].qcode # <<>> /\ subject[k].qcode = code

\* {"qcode": code, "name": subject_codes[code]}
TableEntry(code) == [qcode |-> code, name |-> "subject_codes"]

\* the loop of lines 420-436 from entry i on; the list grows while it is walked
RECURSIVE IptcLoop(_, _, _)
IptcLoop(subject, i, subject_codes) ==
    IF i > Len(subject) THEN subject
    ELSE IF ~(subject[i].qcode # <<>> /\ Len(subject[i].qcode) = 8 /\ IsDigits(subject[i].qcode))
    THEN IptcLoop(subject, i + 1, subject_codes)
    ELSE LET top_qcode == Level(subject[i].qcode, 2)
             mid_qcode == Level(subject[i].qcode, 5)
         IN  IF ~iptc_already_exists(subject, top_qcode) /\ top_qcode \notin subject_codes
             THEN IptcLoop(subject, i + 1, subject_codes)
             ELSE Bind(IF iptc_already_exists(subject, top_qcode) THEN subject
                       ELSE Append(subject, TableEntry(top_qcode)), LAMBDA with_top :
                    IF ~iptc_already_exists(with_top, mid_qcode)
                    THEN IF mid_qcode \in subject_codes
                         THEN IptcLoop(Append(with_top, TableEntry(mid_qcode)), i + 1,
                                       subject_codes)
                         ELSE IptcLoop(with_top, i + 1, subject_codes)
                    ELSE IptcLoop(with_top, i + 1, subject_codes))

\* process_iptc_codes(item, provider): item["subject"] as the call leaves it
process_iptc_codes(subject, subject_codes) == IptcLoop(subject, 1, subject_codes)

\* subject entries as delivered, and the codes a table may know
Formula1 == <<1, 5, 0, 3, 9, 0, 0, 1>>
Rally == <<1, 5, 0, 4, 0, 0, 0, 2>>
SubjectEntries ==
    {[qcode |-> q, name |-> "feed"] :
        q \in {Formula1, Rally, Level(Formula1, 5), Level(Formula1, 2),
               <<1, 5, 0, 3, 9, 0, 0, 10>>, <<>>}}
TableCodes == {Level(Formula1, 2), Level(Formula1, 5), Level(Rally, 5)}

\* the subject lists of at most max entries
SubjectLists(max) == UNION {[1..n -> SubjectEntries] : n \in 0..max}

\* no ingest call and no run exists
NoIngest ==
    /\ clock = ClockStart
    /\ db = <<>>
    /\ nextId = 0
    /\ routed = <<>>
    /\ ncalls = 0
    /\ providerDb = Provider("none", AbsentStr, NoneInt, FALSE)
    /\ NoRuns

InitIptc ==
    /\ NoIngest
    /\ \E subject \in SubjectLists(MaxSubjects), subject_codes \in SUBSET TableCodes :
         last = [subject |-> subject, subject_codes |-> subject_codes,
                 called |-> FALSE, result |-> <<>>]

\* one call process_iptc_codes(item, provider)
ExpandSubjects ==
    /\ ~last.called
    /\ last' = [last EXCEPT !.called = TRUE,
                            !.result = process_iptc_codes(last.subject, last.subject_codes)]
    /\ UNCHANGED <<clock, db, nextId, routed, ncalls, lockDoc, pc, run, providerDb, notes>>

NextIptc == ExpandSubjects

SpecIptc == InitIptc /\ [][NextIptc]_vars

\* the qcodes of a subject list
Qcodes(subject) == {subject[k].qcode : k \in 1..Len(subject)} \ {<<>>}

\* C12: for every 8-digit numeric subject code of the item, the subject list left by
\* process_iptc_codes holds the code and, independently for each level, its top code
\* and its mid code whenever the code table has an entry for that level; a level
\* without table entry is left out and every delivered entry is kept.
C12_IptcLevelsIndependent ==
    last.called =>
        /\ \A k \in 1..Len(last.subject) : last.result[k] = last.subject[k]
        /\ \A q \in Qcodes(last.subject) : (Len(q) = 8 /\ IsDigits(q)) =>
            /\ Level(q, 2) \in last.subject_codes => Level(q, 2) \in Qcodes(last.result)
            /\ Level(q, 5) \in last.subject_codes => Level(q, 5) \in Qcodes(last.result)
            /\ \A n \in {2, 5} :
                 (Level(q, n) \notin last.subject_codes /\ Level(q, n) \notin Qcodes(last.subject))
                    => Level(q, n) \notin Qcodes(last.result)

-----------------------------------------------------------------------------
(* UpdateIngest.run and its tests of a provider.                           *)
(* A provider of the collection is here [name, is_closed, feeding_service, *)
(* feed_parser, last_updated, update_schedule]: feed_parser is AbsentStr   *)
(* when missing or None, last_updated 0 when missing, update_schedule      *)
(* [hours, minutes], NoSchedule when missing.                              *)

registered_feeding_services == {"rss"}
registered_feed_parsers == {"xml"}

NoSchedule == [hours |-> -1, minutes |-> -1]
UPDATE_SCHEDULE_DEFAULT == [hours |-> 0, minutes |-> 5]

\* timedelta(days=100), in seconds
HundredDays == 100 * 24 * 3600

\* timedelta(**update_schedule), in seconds
Interval(update_schedule) == update_schedule.hours * 3600 + update_schedule.minutes * 60

is_closed(provider) == provider.is_closed

\* lines 66-70; "and" binds tighter than "or"
is_service_and_parser_registered(provider) ==
    \/ /\ provider.feeding_service \in registered_feeding_services
       /\ provider.feed_parser = AbsentStr
    \/ provider.feed_parser \in registered_feed_parsers

\* variant of is_scheduled: the provider is due from the instant the interval has passed
is_scheduled_from_instant(provider, now) ==
    LET last_updated == IF provider.last_updated = 0 THEN now - HundredDays
                        ELSE provider.last_updated
        update_schedule == IF provider.update_schedule = NoSchedule
                           THEN UPDATE_SCHEDULE_DEFAULT ELSE provider.update_schedule
    IN  last_updated + Interval(update_schedule) <= now

is_scheduled(provider, now) ==
    LET last_updated == IF provider.last_updated = 0 THEN now - HundredDays
                        ELSE provider.last_updated
        update_schedule == IF provider.update_schedule = NoSchedule
                           THEN UPDATE_SCHEDULE_DEFAULT ELSE provider.update_schedule
    IN  last_updated + Interval(update_schedule) < now

\* the provider at position k of the collection
ProviderNames == <<"p1", "p2", "p3", "p4">>

ScheduledProvider(is_closed_, feeding_service, feed_parser, last_updated, update_schedule) ==
    [name |-> "p", is_closed |-> is_closed_, feeding_service |-> feeding_service,
     feed_parser |-> feed_parser, last_updated |-> last_updated,
     update_schedule |-> update_schedule]

\* the providers UpdateIngest.run may find: open or closed, service and parser
\* registered or not, updated a moment ago or never
RunConfigs ==
    {ScheduledProvider(c, s, p, u, NoSchedule) :
        c \in BOOLEAN, s \in {"rss", "gone"}, p \in {AbsentStr, "xml", "gone"},
        u \in {0, ClockStart - 100}}

\* the collections of at most max providers
Collections(max) ==
    UNION {{[k \in 1..n |-> [cfgs[k] EXCEPT !.name = ProviderNames[k]]] :
                cfgs \in [1..n -> RunConfigs]} : n \in 1..max}

InitRun ==
    /\ NoIngest
    /\ \E providers \in Collections(MaxProviders), provider_name \in {AbsentStr, "p1"}, sync \in BOOLEAN :
         last = [providers |-> providers, provider_name |-> provider_name, sync |-> sync,
                 i |-> 1, dispatched |-> <<>>]

\* ingest_providers.get(req=None, lookup=lookup) returns the provider
LookedUp(provider, provider_name) ==
    provider_name = AbsentStr \/ provider.name = provider_name

\* one iteration of the loop of UpdateIngest.run, lines 256-272, over the collection
RunProvider ==
    /\ last.i <= Len(last.providers)
    /\ LET provider == last.providers[last.i]
       IN  IF /\ LookedUp(provider, last.provider_name)
              /\ ~is_closed(provider)
              /\ is_service_and_parser_registered(provider)
              /\ (is_scheduled(provider, clock) \/ last.sync)
           THEN last' = [last EXCEPT
                    !.i = @ + 1,
                    !.dispatched = Append(@, [provider |-> provider.name,
                                              how |-> IF last.sync THEN "apply"
                                                      ELSE "apply_async"])]
           ELSE last' = [last EXCEPT !.i = @ + 1]
    /\ UNCHANGED <<clock, db, nextId, routed, ncalls, lockDoc, pc, run, providerDb, notes>>

NextRun == RunProvider

SpecRun == InitRun /\ [][NextRun]_vars

\* the executions dispatched for a provider
Dispatches(name) == {j \in 1..Len(last.dispatched) : last.dispatched[j].provider = name}

\* C13: when UpdateIngest.run has gone through the providers it looked up, exactly one
\* update_provider execution is dispatched for a provider if the provider is not
\* closed, its feeding service and its feed parser are both registered and it is due or
\* the run is synchronous, and none is dispatched for any other provider.
C13_DispatchedIffEligible ==
    last.i > Len(last.providers) =>
        \A k \in 1..Len(last.providers) :
            LET provider == last.providers[k]
                eligible ==
                    /\ ~provider.is_closed
                    /\ provider.feeding_service \in registered_feeding_services
                    /\ provider.feed_parser \in registered_feed_parsers
                    /\ (is_scheduled(provider, clock) \/ last.sync)
            IN  LookedUp(provider, last.provider_name) =>
                    Cardinality(Dispatches(provider.name)) = (IF eligible THEN 1 ELSE 0)

-----------------------------------------------------------------------------
(* is_scheduled, called on its own *)

ScheduleConfigs ==
    {ScheduledProvider(FALSE, "rss", "xml", u, sch) :
        u \in {0, ClockStart - 600, ClockStart - 301, ClockStart - 300, ClockStart - 299,
               ClockStart + TickStep - 300},
        sch \in {NoSchedule, [hours |-> 0, minutes |-> 5], [hours |-> 0, minutes |-> 10],
                 [hours |-> 2399, minutes |-> 55], [hours |-> 2400, minutes |-> 0],
                 [hours |-> 2400, minutes |-> 5]}}

InitScheduled ==
    /\ NoIngest
    /\ \E provider \in ScheduleConfigs :
         last = [provider |-> provider, called |-> FALSE, now |-> 0, due |-> FALSE]

\* one call is_scheduled(provider)
CheckScheduled ==
    /\ ~last.called
    /\ last' = [last EXCEPT !.called = TRUE, !.now = clock,
                            !.due = is_scheduled(last.provider, clock)]
    /\ UNCHANGED <<clock, db, nextId, routed, ncalls, lockDoc, pc, run, providerDb, notes>>

NextScheduled == Tick \/ CheckScheduled

SpecScheduled == InitScheduled /\ [][NextScheduled]_vars

\* the interval configured for the provider of the last call
LastInterval ==
    Interval(IF last.provider.update_schedule = NoSchedule THEN UPDATE_SCHEDULE_DEFAULT
             ELSE last.provider.update_schedule)

-----------------------------------------------------------------------------
(* Properties of the fetch loop *)

\* C15: in the fetch loop of a run the batches are handled one after another: every
\* fetch step but a pending one has had its batch ingested, nothing (None) is sent
\* into the first fetch step, the value sent into a later step is the failed set
\* ingest_items returned for the batch before it, and the loop is left for the final
\* update only by the fetch step that signals the end.
C15_FailedSetFedBack ==
    /\ [](\A r \in Runs :
            /\ run[r].fetches \in {run[r].batches, run[r].batches + 1}
            /\ (pc[r] = "finish" \/ run[r].outcome = "completed") =>
                 run[r].fetches = run[r].batches + 1)
    /\ [][\A r \in Runs :
            run'[r].fetches = run[r].fetches + 1 =>
                run'[r].sent = (IF run[r].batches = 0 THEN <<>> ELSE <<run[r].returned>>)]_vars

C15_Witness ==
    \E r \in Runs :
        /\ run[r].outcome = "completed"
        /\ run[r].batches = 2
        /\ run[r].sent = <<{}>>
        /\ \E r2 \in Runs : run[r2].batches = 1 /\ run[r2].fetches = 2 /\ run[r2].sent = <<{"a"}>>

\* C16: a run that ends with an exception after it acquired the lock has raised one
\* IngestFileError (code 3000) carrying the provider, is done, and has released the
\* lock; no other run has raised anything.
C16_ExceptionWrappedLockReleased ==
    \A r \in Runs :
        /\ run[r].outcome = "raised" =>
            /\ run[r].acquired
            /\ pc[r] = "done"
            /\ run[r].error = [code |-> 3000, provider |-> providerDb.id]
            /\ run[r].unlocked
            /\ lockDoc.owner # r
        /\ run[r].outcome # "raised" => run[r].error = NoError

C16_Witness ==
    \E r \in Runs :
        /\ run[r].outcome = "raised"
        /\ run[r].batches >= 1
        /\ run[r].error.code = 3000
        /\ lockDoc.owner = NoOwner

-----------------------------------------------------------------------------
(* Properties of the alerts of a run *)

\* the step is the final update of run r (lines 328-346), which completes the run
Completes(r) == pc[r] = "finish" /\ pc'[r] = "done" /\ run'[r].outcome = "completed"

\* the provider record, as read at line 329, has a last_item_update and an idle
\* threshold, and the threshold has passed
QuietTooLong ==
    /\ providerDb.last_item_update # 0
    /\ providerDb.idle # 0
    /\ clock > providerDb.last_item_update + providerDb.idle

\* C17: the step that completes a run emits the 'provider quiet' alert once if no item
\* arrived during the run and the time since the provider's last_item_update exceeds
\* the idle threshold, and emits none otherwise; no other step emits it, and alerts of
\* earlier runs do not count.
C17_QuietAlertOncePerIdleRun ==
    [][\A r \in Runs :
        notes'[r].quiet =
            notes[r].quiet
              + (IF Completes(r) /\ ~run[r].arrived /\ QuietTooLong THEN 1 ELSE 0)]_vars

C17_Witness ==
    \A r \in Runs : run[r].outcome = "completed" /\ notes[r].quiet = 1

\* C18 (as stated): a run has emitted the 'ingest:update' notification if and only if
\* it completed and at least one item was created or updated in storage during the run.
C18_NotifiedIffItemStored ==
    \A r \in Runs :
        notes[r].update >= 1 <=> (run[r].outcome = "completed" /\ run[r].stored)

\* C18 (amended): the step that completes a run emits the 'ingest:update' notification
\* once if the fetch steps of the run yielded at least one item, stored or not, and
\* not otherwise; no other step emits it.
C18_NotifiedIffItemsArrived ==
    [][\A r \in Runs :
        notes'[r].update =
            notes[r].update + (IF Completes(r) /\ run[r].arrived THEN 1 ELSE 0)]_vars

C18_Witness ==
    \E r \in Runs :
        /\ run[r].outcome = "completed"
        /\ run[r].arrived
        /\ ~run[r].stored
        /\ notes[r].update = 1

-----------------------------------------------------------------------------
(* Properties of the order and the routing of the ingest_item calls of one *)
(* ingest_items call.  last.calls are the calls in the order they were     *)
(* made, each with the item's type, the references it had when it was      *)
(* passed to ingest_item and the routing scheme it was passed with;        *)
(* last.filtered is the batch the loops ran over.                          *)

\* the calls of the last ingest_items call for composite items
CompositeCalls == {j \in 1..Len(last.calls) : last.calls[j].type = CONTENT_TYPE_COMPOSITE}

\* the calls of the last ingest_items call for the other items
SimpleCalls == {j \in 1..Len(last.calls) : last.calls[j].type # CONTENT_TYPE_COMPOSITE}

\* the reference was rewritten against the batch: it names the GUID it referred to
\* and a location and, when that GUID is a simple item of the batch, refers to the
\* id that item got when it was ingested
Rewritten(ref) ==
    /\ ref.guid # AbsentStr
    /\ ref.location # AbsentStr
    /\ \A t \in 1..Len(last.docs) :
            (last.docs[t].guid = ref.guid /\ ~IsComposite(last.docs[t])) =>
                ref.residRef = last.docs[t].id

\* C19: within one ingest_items call every ingest_item call for a non-composite item
\* is made (and, the calls being sequential, has returned) before the first call for
\* a composite item, and a composite is passed to ingest_item only with every one of
\* its references rewritten against the results of the simple items.
C19_SimpleBeforeCompositeRewritten ==
    /\ \A i \in SimpleCalls, j \in CompositeCalls : i < j
    /\ \A j \in CompositeCalls :
            \A k \in 1..Len(last.calls[j].refs) : Rewritten(last.calls[j].refs[k])

C19_Witness ==
    /\ Len(last.calls) = 3
    /\ last.filtered[1].type = CONTENT_TYPE_COMPOSITE
    /\ last.calls[1].type = "text"
    /\ last.calls[1].ok
    /\ last.calls[2].type = CONTENT_TYPE_COMPOSITE
    /\ last.calls[3].refs[1].guid = "b"
    /\ last.calls[3].refs[1].residRef \notin {"b", AbsentStr}

\* the GUIDs the composites of the batch refer to
ReferencedInBatch ==
    UNION {{last.filtered[i].refs[k].residRef : k \in 1..Len(last.filtered[i].refs)} :
            i \in {c \in 1..Len(last.filtered) : IsComposite(last.filtered[c])}}

\* C20: in one ingest_items call a simple item whose GUID is referenced by any
\* composite of the batch is passed to ingest_item without a routing scheme, and
\* the composites and the simple items no composite refers to are passed with the
\* provider's routing scheme.
C20_ReferencedItemsBypassRouting ==
    \A j \in 1..Len(last.calls) :
        last.calls[j].routing =
            (last.provider.routing_scheme
                /\ ~(j \in SimpleCalls /\ last.calls[j].guid \in ReferencedInBatch))

-----------------------------------------------------------------------------
(* Properties of associations *)

\* ingest_item was called for document i of the last batch and succeeded
IngestedOk(i) == \E c \in Range(last.calls) : c.guid = last.filtered[i].guid /\ c.ok

\* the GUIDs of the associations document i of the last batch was delivered with
AssocGuids(i) ==
    {last.filtered[i].assoc[k].guid : k \in 1..Len(last.filtered[i].assoc)} \ {AbsentStr}

\* C21: after ingest_item succeeded for an item, every association of it that has a
\* GUID and a stored record has the stored expiry of the item's own stored record.
C21_AssociationExpiryFollowsParent ==
    \A i \in 1..Len(last.filtered) :
        IngestedOk(i) =>
            \A g \in AssocGuids(i) :
                FindByGuid(db, g) # 0 =>
                    Stored(db, g).expiry = Stored(db, last.filtered[i].guid).expiry

-----------------------------------------------------------------------------
(* Properties of failed ingest_item calls *)

\* the last call passed one item to ingest_item, the call got past the skips of
\* lines 587-596 and a later step of it raised
LastRaised ==
    /\ LastSingle
    /\ Len(last.calls) = 1
    /\ ~last.calls[1].ok
    /\ \/ FindByGuid(last.before, LastItem.guid) = 0
       \/ ~last.provider.disable_item_updates /\ last.env.should_update

-----------------------------------------------------------------------------
(* Properties of the identity of the stored records *)

\* C23: every stored record has an internal id and a family id, a stored record
\* keeps its GUID, internal id and family id through every later ingest, and the
\* family id of every stored record is the internal id of the first record stored
\* for its GUID, the id assigned when the first version of that GUID was ingested.
C23_FamilyIdIsFirstId ==
    /\ [](\A i \in 1..Len(db) :
            /\ db[i].id # AbsentStr
            /\ db[i].family_id = Stored(db, db[i].guid).id)
    /\ [][/\ Len(db') >= Len(db)
          /\ \A i \in 1..Len(db) :
                /\ db'[i].guid = db[i].guid
                /\ db'[i].id = db[i].id
                /\ db'[i].family_id = db[i].family_id]_vars

-----------------------------------------------------------------------------
(* Properties of the search index.  last.indexed are the records the last  *)
(* ingest_items call re-read from storage and handed to bulk_insert.       *)

\* the positions of the stored records the last call inserted or changed
WrittenInBatch ==
    {i \in 1..Len(db) : i > Len(last.before) \/ db[i] # last.before[i]}

\* C24: when ingest_items returns, every record inserted or updated in storage
\* during the batch, the recursively ingested associations included, was re-read
\* from storage and handed to the bulk insert of the search index.
C24_WrittenRecordsIndexed ==
    \A i \in WrittenInBatch : db[i] \in Range(last.indexed)

-----------------------------------------------------------------------------
(* process_anpa_category.                                                  *)
(* An entry of item["anpa_category"] is [qcode, name, scheme], name and    *)
(* scheme AbsentStr as delivered; an entry of the categories vocabulary is *)
(* [qcode, name, is_active].  Qcodes are one-letter strings.               *)

\* qcode.lower()
Lower(qcode) ==
    CASE qcode = "A" -> "a"
      [] qcode = "B" -> "b"
      [] qcode = "X" -> "x"
      [] OTHER -> qcode

\* list.remove(x): the list without its first element equal to x
ListRemove(list, x) ==
    LET first == CHOOSE i \in 1..Len(list) :
                    list[i] = x /\ \A j \in 1..(i - 1) : list[j] # x
    IN  SubSeq(list, 1, first - 1) \o SubSeq(list, first + 1, Len(list))

\* mapped_category of lines 359-363
MappedCategory(item_category, vocabulary) ==
    SelectSeq(vocabulary, LAMBDA c :
        c.is_active /\ Lower(item_category.qcode) = Lower(c.qcode))

\* the loop of lines 358-375 over item["anpa_category"], at position i of the list
\* as it is then; removing an entry moves the later ones one position down
RECURSIVE AnpaLoop(_, _, _)
AnpaLoop(anpa_category, i, vocabulary) ==
    IF i > Len(anpa_category) THEN anpa_category
    ELSE Bind(MappedCategory(anpa_category[i], vocabulary), LAMBDA mapped_category :
            IF Len(mapped_category) = 0
            THEN AnpaLoop(ListRemove(anpa_category, anpa_category[i]), i + 1, vocabulary)
            ELSE AnpaLoop([anpa_category EXCEPT
                              ![i] = [qcode |-> mapped_category[1].qcode,
                                      name |-> mapped_category[1].name,
                                      scheme |-> "categories"]],
                          i + 1, vocabulary))

\* process_anpa_category(item, provider): item["anpa_category"] as the call leaves it
process_anpa_category(anpa_category, vocabulary) == AnpaLoop(anpa_category, 1, vocabulary)

\* categories as delivered and the vocabularies the system may hold
CategoryEntries == {[qcode |-> q, name |-> AbsentStr, scheme |-> AbsentStr] : q \in {"a", "A", "b", "x"}}

\* the category lists of at most max entries
CategoryLists(max) == UNION {[1..n -> CategoryEntries] : n \in 0..max}

Vocabularies ==
    LET a == [qcode |-> "A", name |-> "Australian News", is_active |-> TRUE]
        b == [qcode |-> "b", name |-> "Business", is_active |-> TRUE]
    IN  {<<>>, <<a>>, <<a, b>>, <<a, [b EXCEPT !.is_active = FALSE]>>,
         <<[a EXCEPT !.is_active = FALSE], b>>}

InitAnpa ==
    /\ NoIngest
    /\ \E anpa_category \in CategoryLists(MaxCategories), vocabulary \in Vocabularies :
         last = [anpa_category |-> anpa_category, vocabulary |-> vocabulary,
                 called |-> FALSE, result |-> <<>>]

\* one call process_anpa_category(item, provider)
MapCategories ==
    /\ ~last.called
    /\ last' = [last EXCEPT
                  !.called = TRUE,
                  !.result = process_anpa_category(last.anpa_category, last.vocabulary)]
    /\ UNCHANGED <<clock, db, nextId, routed, ncalls, lockDoc, pc, run, providerDb, notes>>

NextAnpa == MapCategories

SpecAnpa == InitAnpa /\ [][NextAnpa]_vars

\* the active entries of the vocabulary whose code is the qcode but for the case
ActiveMatches(qcode, vocabulary) ==
    {k \in 1..Len(vocabulary) :
        vocabulary[k].is_active /\ Lower(vocabulary[k].qcode) = Lower(qcode)}

\* C25: after process_anpa_category every category left on the item matches an active
\* entry of the vocabulary but for the case of the code and carries that entry's code
\* and name, and no delivered category without an active match is left on the item.
C25_CategoriesMatchVocabulary ==
    last.called =>
        /\ \A k \in 1..Len(last.result) :
             \E v \in ActiveMatches(last.result[k].qcode, last.vocabulary) :
                /\ last.result[k].qcode = last.vocabulary[v].qcode
                /\ last.result[k].name = last.vocabulary[v].name
        /\ \A k \in 1..Len(last.anpa_category) :
             ActiveMatches(last.anpa_category[k].qcode, last.vocabulary) = {} =>
                \A j \in 1..Len(last.result) :
                    last.result[j].qcode # last.anpa_category[k].qcode

-----------------------------------------------------------------------------
(* is_new_version as a function of an item and a stored record *)

\* items and stored records is_new_version may be called with
VersionItems ==
    {Text("a", v, t, e, b) :
        v \in {<<>>, <<2>>}, t \in {0, Recent}, e \in {AbsentInt, NoneInt, Far},
        b \in {"x", "y", "", AbsentStr}}

InitNewVersion ==
    /\ NoIngest
    /\ \E item \in VersionItems, old_item \in VersionItems :
         last = [item |-> item, old_item |-> old_item, called |-> FALSE, result |-> FALSE]

\* one call is_new_version(item, old_item)
CallIsNewVersion ==
    /\ ~last.called
    /\ last' = [last EXCEPT !.called = TRUE,
                            !.result = is_new_version(last.item, last.old_item)]
    /\ UNCHANGED <<clock, db, nextId, routed, ncalls, lockDoc, pc, run, providerDb, notes>>

NextNewVersion == CallIsNewVersion

SpecNewVersion == InitNewVersion /\ [][NextNewVersion]_vars

\* both the item and the stored record carry the explicit version field
BothCarry(item, old_item, f) == Truthy(item, f) /\ Truthy(old_item, f)

\* some field of the item other than expiry has a value that is not None and that
\* the stored record lacks or has another value for
SomeFieldNewOrChanged(item, old_item) ==
    \E f \in DictFields \ {"expiry"} :
        /\ KeyPresent(item, f)
        /\ ~IsNone(item, f)
        /\ (~KeyPresent(old_item, f) \/ item[f] # old_item[f])

\* C26: when the item and the stored record do not both carry explicit version
\* information (version or versioncreated), is_new_version returns true if and only
\* if some field of the item other than expiry has a non-null value that the stored
\* record lacks or has another value for; an equal value never makes a new version.
C26_NewVersionIffContentDiffers ==
    (/\ last.called
     /\ ~BothCarry(last.item, last.old_item, "version")
     /\ ~BothCarry(last.item, last.old_item, "versioncreated"))
        => (last.result <=> SomeFieldNewOrChanged(last.item, last.old_item))

-----------------------------------------------------------------------------
(* The comparison of an explicit version field, lines 733-742, on values   *)
(* of any type.  A value is [t, v]: a string of character codes ("str"),   *)
(* an integer ("int"), or a datetime without ("naive") or with ("aware") a *)
(* time zone.  A Python operation yields [exc, v]: the exception it raises *)
(* ("none" when it returns) and the value it returns.                      *)

\* int(x, 10)
PyInt(x) ==
    IF x.t # "str" THEN [exc |-> "TypeError", v |-> 0]
    ELSE IF IsDigits(x.v) THEN [exc |-> "none", v |-> ParseInt(x.v)]
    ELSE [exc |-> "ValueError", v |-> 0]

\* a > b
PyGreater(a, b) ==
    IF a.t # b.t THEN [exc |-> "TypeError", v |-> FALSE]
    ELSE IF a.t = "str" THEN [exc |-> "none", v |-> StrGreater(a.v, b.v)]
    ELSE [exc |-> "none", v |-> a.v > b.v]

\* variant of CompareExplicit: the direct comparison is not guarded
CompareExplicitUnguarded(a, b) ==
    IF PyInt(a).exc = "none" /\ PyInt(b).exc = "none"
    THEN [exc |-> "none", v |-> PyInt(a).v > PyInt(b).v]
    ELSE PyGreater(a, b)

\* lines 734-742 for item[field] = a and old_item[field] = b, both truthy
CompareExplicit(a, b) ==
    IF PyInt(a).exc = "none" /\ PyInt(b).exc = "none"
    THEN [exc |-> "none", v |-> PyInt(a).v > PyInt(b).v]
    ELSE IF PyInt(a).exc \in {"ValueError", "TypeError"}
              \/ PyInt(b).exc \in {"ValueError", "TypeError"}
    THEN IF PyGreater(a, b).exc = "TypeError"
         THEN [exc |-> "none", v |-> TRUE]
         ELSE PyGreater(a, b)
    ELSE [exc |-> PyInt(a).exc, v |-> FALSE]

\* truthy values of a version or versioncreated field
VersionValues ==
    {[t |-> "str", v |-> q] : q \in {<<2>>, <<1, 0>>, <<10>>, <<9, 10>>}}
    \cup {[t |-> "int", v |-> n] : n \in {2, 10}}
    \cup {[t |-> "naive", v |-> d] : d \in {Recent, Old}}
    \cup {[t |-> "aware", v |-> Recent]}

InitCompare ==
    /\ NoIngest
    /\ \E a \in VersionValues, b \in VersionValues :
         last = [item_value |-> a, old_value |-> b, called |-> FALSE,
                 result |-> [exc |-> "none", v |-> FALSE]]

\* is_new_version for an item and a stored record that carry these values in their
\* first explicit version field
CallCompare ==
    /\ ~last.called
    /\ last' = [last EXCEPT !.called = TRUE,
                            !.result = CompareExplicit(last.item_value, last.old_value)]
    /\ UNCHANGED <<clock, db, nextId, routed, ncalls, lockDoc, pc, run, providerDb, notes>>

NextCompare == CallCompare

SpecCompare == InitCompare /\ [][NextCompare]_vars

\* the value is a string that int(value, 10) parses
Parses(x) == x.t = "str" /\ IsDigits(x.v)

\* C27: is_new_version does not raise when both sides carry an explicit version
\* field: two values that parse as integers are compared as numbers, values that do
\* not both parse are compared directly, and two values that cannot be compared make
\* the result true.
C27_VersionComparisonNeverRaises ==
    last.called =>
        LET a == last.item_value
            b == last.old_value
        IN  /\ last.result.exc = "none"
            /\ (Parses(a) /\ Parses(b)) => (last.result.v <=> ParseInt(a.v) > ParseInt(b.v))
            /\ (~(Parses(a) /\ Parses(b)) /\ a.t = "str" /\ b.t = "str") =>
                    (last.result.v <=> StrGreater(a.v, b.v))
            /\ (a.t = b.t /\ a.t # "str") => (last.result.v <=> a.v > b.v)
            /\ a.t # b.t => last.result.v

C27_Witness ==
    /\ last.called
    /\ last.item_value = [t |-> "aware", v |-> Recent]
    /\ last.old_value = [t |-> "naive", v |-> Recent]
    /\ last.result = [exc |-> "none", v |-> TRUE]

-----------------------------------------------------------------------------
(* Properties of deliveries that are not written *)

\* the last call passed one item to ingest_item, which found a stored record for its
\* GUID and decided at line 691 that the item is not a new version of it
StaleDelivered ==
    /\ LastSingle
    /\ Len(last.calls) = 1
    /\ last.calls[1].path = "merged"

\* no association of the last item carries the item's own GUID
NoSelfAssociation == LastItem.guid \notin AssocGuids(1)

\* the item as the last call left it carries the values of the record
CarriesValuesOf(rec) ==
    \A f \in DictFields : KeyPresent(rec, f) => last.docs[1][f] = rec[f]

\* nothing was returned for the stored record of the last item and nothing was routed
NotReturnedNotRouted ==
    /\ Stored(last.before, LastItem.guid).id \notin Range(last.created)
    /\ Stored(last.before, LastItem.guid).id \notin Range(last.calls[1].ids)
    /\ routed = last.routedBefore

\* C28 (as stated): when a stored record exists for the item's GUID and the item is
\* not a new version, ingest_item writes nothing to that record, does not return its
\* id, applies no routing and leaves the item carrying the record's values.
C28_StaleWritesNothing ==
    StaleDelivered =>
        /\ Stored(db, LastItem.guid) = Stored(last.before, LastItem.guid)
        /\ NotReturnedNotRouted
        /\ CarriesValuesOf(Stored(db, LastItem.guid))

\* the record as ingest_cancel leaves it
Killed(rec) == [rec EXCEPT !.pubstatus = PUB_STATUS_CANCELED, !.state = CONTENT_STATE_KILLED]

\* C28 (amended): in that case the stored record is left as it was, unless the item
\* is a cancellation with the record's uri: then the record is killed and nothing
\* else of it changes; its id is not returned, no routing is applied, and the item
\* carries the values the record had when the call began.  An association with the
\* item's own GUID is the one other way the record is written.
C28_StaleWritesOnlyCancellation ==
    (StaleDelivered /\ NoSelfAssociation) =>
        LET old == Stored(last.before, LastItem.guid)
            cancels == /\ LastItem.pubstatus \in {PUB_STATUS_CANCELED, "cancelled"}
                       /\ old.uri = UriOf(LastItem)
        IN  /\ Stored(db, LastItem.guid) = (IF cancels THEN Killed(old) ELSE old)
            /\ NotReturnedNotRouted
            /\ CarriesValuesOf(old)

C28_Witness ==
    /\ StaleDelivered
    /\ LastItem.pubstatus = "cancelled"
    /\ Stored(last.before, LastItem.guid).state = CONTENT_STATE_INGESTED
    /\ Stored(db, LastItem.guid).state = CONTENT_STATE_KILLED
    /\ last.docs[1].state = CONTENT_STATE_INGESTED

-----------------------------------------------------------------------------
(* Properties of skipped deliveries *)

\* the last call passed one item to ingest_item that has a stored record, for a
\* provider that disables item updates or a collection whose should_update says no
UpdateNotAllowed ==
    /\ LastSingle
    /\ Len(last.calls) = 1
    /\ FindByGuid(last.before, LastItem.guid) # 0
    /\ last.provider.disable_item_updates \/ ~last.env.should_update

\* C29: when a stored record exists for the item's GUID and the provider disables item
\* updates or should_update says no, ingest_item is a skip: storage is as it was (no
\* record written, none cancelled), nothing is routed, the item is left as it was
\* delivered, no ids are returned and the call did not go through the except clause
\* that records a provider error.
C29_DisallowedUpdateIsSkipped ==
    UpdateNotAllowed =>
        /\ db = last.before
        /\ routed = last.routedBefore
        /\ last.docs = last.filtered
        /\ last.created = <<>>
        /\ last.calls[1].ids = <<>>
        /\ ~last.calls[1].ok
        /\ last.calls[1].path = "skipped"

C29_Witness ==
    /\ UpdateNotAllowed
    /\ last.provider.disable_item_updates
    /\ LastItem.pubstatus = PUB_STATUS_CANCELED
    /\ LastItem.version = <<2>>
    /\ Stored(db, LastItem.guid).version = <<1>>
    /\ Stored(db, LastItem.guid).state = CONTENT_STATE_INGESTED
    /\ last.calls[1].path = "skipped"

-----------------------------------------------------------------------------
(* Properties of the GUIDs of the stored records *)

\* C30: after any sequence of ingest_items calls made one after another no two stored
\* records have the same GUID.
C30_GuidUniqueInStorage ==
    \A i, j \in 1..Len(db) : db[i].guid = db[j].guid => i = j

====
